---- MODULE Spec2Model ----
(***************************************************************************)
(* Model of bulkRegistration/step2CreateAndActivateCredential.py: the      *)
(* batch loop of main, the per-entry registration ceremony, the PIN        *)
(* handling and the activation call.  The script is single-threaded; pc    *)
(* is the position of the one thread of control.                           *)
(*                                                                         *)
(* Python strings whose content matters (PINs) are sequences of            *)
(* one-character strings: "" is <<>>, "n/a" is <<"n","/","a">>.            *)
(***************************************************************************)
EXTENDS Integers, Sequences, FiniteSets, TLC

VARIABLES
    platform,      \* where the script runs: decides WindowsClient/IsUserAnAdmin
    configs,       \* configs.json, loaded at import time
    in_csv,        \* usersToRegister.csv: row[0] of every row, header included
    pc,            \* position of the thread of control
    access_token,  \* main: access_token
    line_count,    \* main: line_count (rows of in_csv consumed so far)
    out_csv,       \* keysRegistered.csv: the rows written so far
    user_name,     \* main: user_name of the row being processed
    polls,         \* depth of the wait_device_loop recursion
    devices,       \* wait_device_loop: devices (what the last poll listed)
    device,        \* create_credentials_on_security_key: device ("none" outside it)
    options,       \* the options the device in hand reported when it was plugged in
    serial,        \* main: serial (serial_number of the ceremony)
    pin,           \* module global pin
    pinOwner,      \* line_count at the moment pin was last assigned (0: never)
    response,      \* create_and_activate_fido_method: response
    activated,     \* main: activated
    auth_method,   \* main: auth_method
    ops,           \* device and remote operations issued for the current row
    error,         \* main: error caught by the except clause ("" when none)
    digits,        \* generate_pin: digits (the candidate being sampled)
    read_packet,   \* get_thales_serial_number: what device._connection.read_packet() returns
    apdu_exchange, \* get_thales_serial_number: how the apdu_exchange and _select calls end
    handles,       \* transport connections opened by list_devices and not closed
    token_requests,\* calls of get_access_token_for_microsoft_graph so far
    headers,       \* create_and_activate_fido_method: headers of the last request
    disk           \* keysRegistered.csv as stored: what survives the process

vars == <<platform, configs, in_csv, pc, access_token, line_count, out_csv,
          user_name, polls, devices, device, options, serial, pin, pinOwner,
          response, activated, auth_method, ops, error, digits, read_packet,
          apdu_exchange, handles, token_requests, headers, disk>>

---------------------------------------------------------------------------
(* Bounds of the model *)

\* longest usersToRegister.csv explored (rows, the skipped first row included)
MaxRows == 4
\* recursion depth at which the interpreter refuses another wait_device_loop frame
MaxDepth == 2
\* longest randomPINLength explored for generate_pin on its own
MaxLen == 8
\* longest packet handed to get_thales_serial_number on its own
MaxPacket == 18
\* longest randomPINLength explored for generate_pin under a fair source
MaxFairLen == 4

\* row[0] of the i-th row of the input file: a header row, then users
RowAt(i) == IF i = 1 THEN "#upn" ELSE IF i % 2 = 0 THEN "alice" ELSE "bob"
\* the input files explored: the first n rows of that file (every row has
\* its six columns)
Worklists == {[i \in 1..n |-> RowAt(i)] : n \in 0..MaxRows}
\* string.digits
string_digits == {"0", "1", "2", "3", "4", "5", "6", "7", "8", "9"}
\* the digits from which generate_pin on its own builds every candidate
SampleDigits == {"1", "2", "3", "4"}
\* outcomes of secrets.choice(string.digits) explored inside a batch run
RunDigits == {"0", "1"}
\* randomPINLength values explored inside a batch run
RunPinLengths == {1, 2}
\* what the operator types at a getpass prompt
TypedPins == {<<"4", "3", "2", "1">>}
\* "id" values of the activation response body
MethodIds == {"abc123"}
\* status codes of a failed activation
FailureStatuses == {400}
\* authenticator transports: one USB HID key, one contactless (PCSC) key
HidDevices == {"hid"}
PcscDevices == {"nfc"}

---------------------------------------------------------------------------
(* Python values *)

NoPin == <<>>
NotApplicable == <<"n", "/", "a">>
PyStr(s) == <<"str", s>>
PyEmptyList == <<"list">>
Unbound == <<"unbound">>

\* csv.writer writes a str as it is and any other value through str()
CsvField(v) ==
    IF v[1] = "str" THEN v[2]
    ELSE IF v[1] = "int" THEN ToString(v[2])
    ELSE "[]"

Header == <<"#upn", "entraIDAuthMethodObjectId", "serialNumber", "PIN">>

---------------------------------------------------------------------------
(* Transport probe: enumerate_devices, wait_device_loop, get_serial_number *)

\* enumerate_devices: the HID devices first, then the PCSC devices (when the
\* PCSC backend could be imported); at most one key of each transport here
Enumerations == {<<>>, <<"hid">>, <<"nfc">>, <<"hid", "nfc">>}

\* ctap.info.options of a key: clientPin (a PIN is set), rk (discoverable
\* credentials), setMinPINLength (the authenticator-configuration command)
DeviceOptions == [clientPin : BOOLEAN, rk : BOOLEAN, setMinPINLength : BOOLEAN]
NoOptions == [clientPin |-> FALSE, rk |-> FALSE, setMinPINLength |-> FALSE]

RaiseResult(msg) == [kind |-> "raise", msg |-> msg, value |-> Unbound]
ReturnResult(v) == [kind |-> "return", msg |-> "", value |-> v]

\* wait_device_loop without the test of line 97
wait_device_loop_first(listed, depth) ==
    IF Len(listed) = 0
    THEN IF depth < MaxDepth
         THEN [kind |-> "recurse", msg |-> "", value |-> Unbound]
         ELSE RaiseResult("maximum recursion depth exceeded")
    ELSE ReturnResult(listed[1])

\* One frame of wait_device_loop, given what enumerate_devices listed and the
\* number of frames already on the stack.  A further frame beyond the
\* interpreter's recursion limit raises RecursionError instead of polling.
wait_device_loop(listed, depth) ==
    IF Len(listed) = 0
    THEN IF depth < MaxDepth
         THEN [kind |-> "recurse", msg |-> "", value |-> Unbound]
         ELSE RaiseResult("maximum recursion depth exceeded")
    ELSE IF Len(listed) > 1
         THEN RaiseResult("More than one device found.")
         ELSE ReturnResult(listed[1])

\* struct.unpack_from("<I", recv)[0]: the channel read little-endian
UnpackLE32(recv) == recv[4] * 16777216 + recv[3] * 65536 + recv[2] * 256 + recv[1]

\* struct.unpack_from(">I", recv)[0]
UnpackBE32(recv) == recv[1] * 16777216 + recv[2] * 65536 + recv[3] * 256 + recv[4]

\* sys.getsizeof of a bytes object: the object header plus one byte per item
BytesOverhead == 33
GetSizeOf(recv) == BytesOverhead + Len(recv)

\* recv[a:b] with 0-based, end-exclusive Python indices; a slice never raises
Slice(recv, a, b) ==
    LET hi == IF b < Len(recv) THEN b ELSE Len(recv)
    IN  IF a >= hi THEN <<>> ELSE SubSeq(recv, a + 1, hi)

\* bytes.decode("utf-8") for the byte strings explored here: ASCII bytes
\* decode to the characters of the same code points, a stray byte >= 0x80
\* raises UnicodeDecodeError
Decodable(bytes) == \A i \in DOMAIN bytes : bytes[i] < 128

\* channel id of the open HID session (device._channel_id)
ChannelId == 7

\* USB branch of get_thales_serial_number on the packet read back
get_thales_serial_number_hid(recv) ==
    IF Len(recv) < 4 THEN RaiseResult("unpack_from requires a buffer of at least 4 bytes")
    ELSE IF UnpackBE32(recv) # ChannelId THEN RaiseResult("Wrong channel")
    ELSE IF Len(recv) < 8 THEN RaiseResult("index out of range")
    ELSE IF recv[8] # 0 THEN RaiseResult("Unable to get Thales Serial Number")
    ELSE IF Len(recv) < 9 THEN RaiseResult("index out of range")
    ELSE IF recv[9] # 2 THEN RaiseResult("Unable to get Thales Serial Number")
    ELSE IF GetSizeOf(recv) < 17 THEN RaiseResult("Unable to get Thales Serial Number")
    ELSE IF ~Decodable(Slice(recv, 9, 17)) THEN RaiseResult("'utf-8' codec can't decode")
    ELSE ReturnResult(PyStr(Slice(recv, 9, 17)))

\* status word pair of a successful APDU (fido2.pcsc.SW_SUCCESS)
SW_SUCCESS == <<144, 0>>

\* NFC branch of get_thales_serial_number.  x.select and x.getdata are the
\* two apdu_exchange calls ([exc, resp, sw]); x.reselect tells whether
\* device._select() in the finally clause raises.  The except clause catches
\* everything raised in the try block; an exception of the finally clause
\* replaces the pending return.
get_thales_serial_number_nfc(x) ==
    LET body ==
            IF x.select.exc \/ x.select.sw # SW_SUCCESS THEN ReturnResult(PyStr(<<>>))
            ELSE IF x.getdata.exc \/ x.getdata.sw # SW_SUCCESS THEN ReturnResult(PyStr(<<>>))
            ELSE IF ~Decodable(Slice(x.getdata.resp, 3, Len(x.getdata.resp)))
                 THEN ReturnResult(PyStr(<<>>))
            ELSE ReturnResult(PyStr(Slice(x.getdata.resp, 3, Len(x.getdata.resp))))
    IN  IF x.reselect THEN RaiseResult("device._select() failed") ELSE body

\* get_serial_number: the first entry of list_all_devices() decides when there
\* is one, otherwise the Thales lookup on the transport of the device
get_serial_number(dev, listing, recv, x) ==
    IF Len(listing) > 0 THEN ReturnResult(listing[1])
    ELSE IF dev \in HidDevices THEN get_thales_serial_number_hid(recv)
    ELSE get_thales_serial_number_nfc(x)

(* What the outside world can answer during a serial lookup *)

PyInt(n) == <<"int", n>>
\* list_all_devices(): no YubiKey, or one whose info.serial is an int
YubiKeyListings == {<<>>, <<PyInt(5417)>>}

SerialBytes == <<83, 78, 48, 48, 48, 48, 48, 49>>
HidGood == <<0, 0, 0, 7, 208, 0, 10, 0, 2>> \o SerialBytes
HidResponses ==
    { HidGood,
      <<0, 0, 0, 9, 208, 0, 10, 0, 2>> \o SerialBytes,
      <<0, 0, 0, 7, 208, 0, 10, 1, 2>> \o SerialBytes,
      <<0, 0, 0, 7, 208, 0, 10, 0, 2, 83, 78>>,
      <<0, 0, 0, 7, 208>> }

\* the packets explored inside a batch run: a good one, one of another channel
RunHidResponses == {r \in HidResponses : Len(r) >= 17 /\ r[8] = 0}

ApduOk(resp) == [exc |-> FALSE, resp |-> resp, sw |-> SW_SUCCESS]
ApduStatus(sw) == [exc |-> FALSE, resp |-> <<>>, sw |-> sw]
ApduRaises == [exc |-> TRUE, resp |-> <<>>, sw |-> <<0, 0>>]
NfcAnswers ==
    { [select |-> ApduOk(<<>>), getdata |-> ApduOk(<<1, 4, 8>> \o SerialBytes), reselect |-> FALSE],
      [select |-> ApduStatus(<<106, 130>>), getdata |-> ApduRaises, reselect |-> FALSE],
      [select |-> ApduOk(<<>>), getdata |-> ApduStatus(<<106, 136>>), reselect |-> FALSE],
      [select |-> ApduRaises, getdata |-> ApduRaises, reselect |-> FALSE],
      [select |-> ApduOk(<<>>), getdata |-> ApduRaises, reselect |-> FALSE],
      [select |-> ApduOk(<<>>), getdata |-> ApduOk(<<1, 4, 8>> \o SerialBytes), reselect |-> TRUE] }

\* no exchange has taken place
NoExchange == [select |-> ApduStatus(<<0, 0>>), getdata |-> ApduStatus(<<0, 0>>), reselect |-> FALSE]

\* lines 473-485: the calls made on the contactless device, in order
NfcCalls(x) ==
    <<"select_card_manager">>
        \o (IF ~x.select.exc /\ x.select.sw = SW_SUCCESS THEN <<"get_data">> ELSE <<>>)
        \o <<"_select">>

\* serial bytes that are not UTF-8
BadSerialBytes == <<83, 78, 48, 48, 255, 48, 48, 50>>
\* a packet of MaxPacket bytes: channel, command, length, two status bytes,
\* eight serial bytes, zero padding
PacketOf(ch, s1, s2, body) ==
    <<0, 0, 0, ch, 208, 0, 10, s1, s2>> \o body \o [i \in 1..(MaxPacket - 17) |-> 0]
\* what read_packet can hand back to the lookup studied on its own: every
\* prefix of such packets, with the echoed channel, the status bytes and the
\* serial bytes right or wrong
CraftedPackets ==
    { SubSeq(PacketOf(ch, s1, s2, body), 1, n) :
        ch \in {ChannelId, ChannelId + 2}, s1 \in {0, 1}, s2 \in {2, 3},
        body \in {SerialBytes, BadSerialBytes}, n \in 0..MaxPacket }
\* how the three calls on a contactless device can end
CraftedExchanges ==
    { [select |-> s, getdata |-> g, reselect |-> r] :
        s \in {ApduOk(<<>>), ApduStatus(<<106, 130>>), ApduRaises},
        g \in {ApduOk(<<1, 4, 8>> \o SerialBytes), ApduOk(<<1, 4, 8>> \o BadSerialBytes),
               ApduOk(<<1>>), ApduStatus(<<106, 136>>), ApduRaises},
        r \in BOOLEAN }

\* the exchanges explored inside a batch run: a good one, a refused select,
\* a failing re-selection
RunNfcAnswers == {x \in NfcAnswers : ~x.select.exc /\ ~x.getdata.exc /\ x.getdata.sw = SW_SUCCESS}

---------------------------------------------------------------------------
(* PIN manager: generate_pin, generate_and_set_pin, set_ctap21_flags *)

disallowed_pins ==
    { <<"1", "2", "3", "4", "5", "6", "7", "8">>,
      <<"1", "2", "3", "4", "1", "2", "3", "4">>,
      <<"8", "7", "6", "5", "4", "3", "2", "1">>,
      <<"1", "2", "3", "4", "4", "3", "2", "1">>,
      <<"1", "1", "2", "2", "3", "3", "4", "4">>,
      <<"1", "2", "1", "2", "1", "2", "1", "2">>,
      <<"1", "2", "3", "4", "5", "6">>,
      <<"1", "2", "3", "1", "2", "3">>,
      <<"6", "5", "4", "3", "2", "1">>,
      <<"1", "2", "3", "3", "2", "1">>,
      <<"1", "1", "2", "2", "3", "3">>,
      <<"1", "2", "1", "2", "1", "2">>,
      <<"5", "2", "0", "5", "2", "0">>,
      <<"1", "2", "3", "6", "5", "4">>,
      <<"1", "5", "9", "7", "5", "3">> }

\* the test of line 376 without its second half
PinAcceptedNoDenylist(candidate) ==
    Cardinality({candidate[i] : i \in DOMAIN candidate}) # 1

\* the test of line 376 with the "not" of its second half dropped
PinAcceptedDenylisted(candidate) ==
    /\ Cardinality({candidate[i] : i \in DOMAIN candidate}) # 1
    /\ candidate \in disallowed_pins

\* the test of generate_pin on a complete candidate
PinAccepted(candidate) ==
    /\ Cardinality({candidate[i] : i \in DOMAIN candidate}) # 1
    /\ candidate \notin disallowed_pins

\* the candidates explored for generate_pin on its own: every string over
\* SampleDigits, every denylist entry and every repetition of one digit of
\* string.digits; c is the beginning of one of them
ExploredPrefix(c, length) ==
    \/ \A i \in DOMAIN c : c[i] \in SampleDigits
    \/ \A i, j \in DOMAIN c : c[i] = c[j]
    \/ \E d \in disallowed_pins : Len(d) = length /\ SubSeq(d, 1, Len(c)) = c

\* the values generate_pin can return when it samples from alphabet; empty
\* when every candidate is rejected, and then the while loop never ends
GeneratePinResults(length, alphabet) ==
    {c \in [1..length -> alphabet] : PinAccepted(c)}

\* the condition of lines 136-139 and 404-407
WindowsClientAvailable == platform \in {"windows_user", "windows_admin"}
IsUserAnAdmin == platform = "windows_admin"
\* the condition with its "not" dropped
UseWindowsClientWhenAdmin == WindowsClientAvailable /\ IsUserAnAdmin
UseWindowsClient == WindowsClientAvailable /\ ~IsUserAnAdmin

\* the guard of line 189
FlagsConfigured == configs.setMinimumPINLength \/ configs.setForceChangePin

\* set_ctap21_flags with line 430 as an elif of line 424
Ctap21CallsEither(supported) ==
    IF supported
    THEN <<"get_pin_token">>
         \o (IF configs.setMinimumPINLength THEN <<"set_min_pin_length">>
             ELSE IF configs.setForceChangePin THEN <<"force_change_pin">> ELSE <<>>)
    ELSE <<>>

\* set_ctap21_flags on the direct-device path: the client-PIN and
\* device-configuration calls it makes, in order, on a device that reports
\* (or not) the setMinPINLength option
Ctap21Calls(supported) ==
    IF supported
    THEN <<"get_pin_token">>
         \o (IF configs.setMinimumPINLength THEN <<"set_min_pin_length">> ELSE <<>>)
         \o (IF configs.setForceChangePin THEN <<"force_change_pin">> ELSE <<>>)
    ELSE <<>>

\* the keys explored: an option the run never reads on its path (lines 154,
\* 386 and 416) is left at one value
PluggedOptions ==
    {o \in DeviceOptions :
        /\ UseWindowsClient => o.rk
        /\ (UseWindowsClient \/ ~configs.setRandomPIN) => ~o.clientPin
        /\ (UseWindowsClient \/ ~FlagsConfigured) => ~o.setMinPINLength}

---------------------------------------------------------------------------
(* Activation client and the output row *)

\* lines 340-348: what create_and_activate_fido_method returns for a response
create_and_activate_fido_method(resp) ==
    IF resp.status = 201 THEN <<TRUE, PyStr(resp.id)>> ELSE <<FALSE, PyEmptyList>>

\* the row without the PIN
OutcomeRowNoPin(name, method, sn, p) == <<name, CsvField(method), CsvField(sn), NoPin>>

\* line 599: the row handed to csv_writer.writerow, as the writer renders it
OutcomeRow(name, method, sn, p) == <<name, CsvField(method), CsvField(sn), p>>

\* an except clause that swallows the exception: the entry goes on to its
\* activation request
ExceptHandlerActivates == "activate"

\* an except clause that skips the entry and goes on with the next one
ExceptHandlerContinues == "continue_prompt"

\* lines 587-590: where control goes when the try block raises an Exception
ExceptHandler == "aborted"

NoResponse == [status |-> 0, id |-> ""]
\* the request built without the token
set_http_headers_no_token(token) == [Authorization |-> ""]

\* lines 201-207: the header that carries the token
set_http_headers(token) == [Authorization |-> token]
\* no request has been built yet
NoHeaders == [Authorization |-> ""]
Responses ==
    {[status |-> 201, id |-> i] : i \in MethodIds}
        \cup {[status |-> st, id |-> ""] : st \in FailureStatuses}


---------------------------------------------------------------------------
(* The batch run: main *)

Configs(lengths) ==
    [setRandomPIN : BOOLEAN, randomPINLength : lengths,
     setMinimumPINLength : BOOLEAN, setForceChangePin : BOOLEAN]

\* the state of the module once it is imported, before main() is called
Loaded ==
    /\ access_token = ""
    /\ line_count = 0
    /\ out_csv = <<>>
    /\ user_name = ""
    /\ polls = 0
    /\ devices = <<>>
    /\ device = "none"
    /\ options = NoOptions
    /\ serial = Unbound
    /\ pin = NoPin
    /\ pinOwner = 0
    /\ response = NoResponse
    /\ activated = FALSE
    /\ auth_method = Unbound
    /\ ops = <<>>
    /\ error = ""
    /\ digits = <<>>
    /\ handles = 0
    /\ token_requests = 0
    /\ headers = NoHeaders
    /\ disk = <<>>

\* no serial number exchange is recorded
NotLookedUp ==
    /\ read_packet = <<>>
    /\ apdu_exchange = NoExchange

\* randomPINLength is read only when setRandomPIN is set
Init ==
    /\ platform \in {"windows_user", "windows_admin", "other"}
    /\ configs \in Configs(RunPinLengths)
    /\ ~configs.setRandomPIN => configs.randomPINLength = 2
    /\ in_csv \in Worklists
    /\ pc = "main"
    /\ Loaded
    /\ NotLookedUp

\* the exception lands in the except clause of main
Raise(msg) ==
    /\ error' = msg
    /\ pc' = ExceptHandler

\* positions at which the process has left the with blocks of lines 541-542,
\* whether by return, by SystemExit or by the end of the loop
Closed == {"aborted", "finished", "quit", "sys_exit"}

\* lines 541-599: out_csv_file is written through its buffer and the script
\* never calls flush; the rows reach the stored file when the with block
\* closes it
Persist == disk' = IF pc' \in Closed THEN out_csv' ELSE disk

\* lines 538-539; an error response makes main raise before the try block
GetAccessToken ==
    /\ pc = "main"
    /\ \E granted \in BOOLEAN :
          IF granted
          THEN access_token' = "token" /\ pc' = "open"
          ELSE access_token' = access_token /\ pc' = "crashed"
    /\ token_requests' = token_requests + 1
    /\ UNCHANGED <<platform, configs, in_csv, line_count, out_csv, user_name,
                   polls, device, devices, options, serial, pin, pinOwner, response, activated,
                   auth_method, ops, error, digits>>
    /\ UNCHANGED <<read_packet, apdu_exchange>>
    /\ UNCHANGED <<handles, headers>>
    /\ Persist

\* lines 541-548: the output file is truncated and the header row written
OpenFiles ==
    /\ pc = "open"
    /\ out_csv' = <<Header>>
    /\ pc' = "next_row"
    /\ UNCHANGED <<platform, configs, in_csv, access_token, line_count,
                   user_name, polls, device, devices, options, serial, pin, pinOwner, response,
                   activated, auth_method, ops, error, digits>>
    /\ UNCHANGED <<read_packet, apdu_exchange>>
    /\ UNCHANGED <<handles, token_requests, headers>>
    /\ Persist

\* lines 549-552 and 603: the first row is skipped whatever it holds
SkipHeaderRow ==
    /\ pc = "next_row"
    /\ line_count < Len(in_csv)
    /\ line_count = 0
    /\ line_count' = line_count + 1
    /\ UNCHANGED <<platform, configs, in_csv, pc, access_token, out_csv,
                   user_name, polls, device, devices, options, serial, pin, pinOwner, response,
                   activated, auth_method, ops, error, digits>>
    /\ UNCHANGED <<read_packet, apdu_exchange>>
    /\ UNCHANGED <<handles, token_requests, headers>>
    /\ Persist

\* lines 549, 554-567 and 133: a worklist row is read and the ceremony starts
ReadEntry ==
    /\ pc = "next_row"
    /\ line_count < Len(in_csv)
    /\ line_count # 0
    /\ user_name' = in_csv[line_count + 1]
    /\ ops' = <<>>
    /\ polls' = 0
    /\ pc' = "wait_device"
    /\ UNCHANGED <<platform, configs, in_csv, access_token, line_count,
                   out_csv, device, devices, options, serial, pin, pinOwner, response,
                   activated, auth_method, error, digits>>
    /\ UNCHANGED <<read_packet, apdu_exchange>>
    /\ UNCHANGED <<handles, token_requests, headers>>
    /\ Persist

\* lines 549 and 604-607: the reader is exhausted
EndOfInput ==
    /\ pc = "next_row"
    /\ line_count >= Len(in_csv)
    /\ pc' = "finished"
    /\ UNCHANGED <<platform, configs, in_csv, access_token, line_count,
                   out_csv, user_name, polls, device, devices, options, serial, pin, pinOwner,
                   response, activated, auth_method, ops, error, digits>>
    /\ UNCHANGED <<read_packet, apdu_exchange>>
    /\ UNCHANGED <<handles, token_requests, headers>>
    /\ Persist

\* lines 92-99: one poll of wait_device_loop.  Its frames are popped when the
\* innermost one returns; polls keeps the depth at which an exception was
\* raised.  The key that is found reports its options as it is opened.
WaitDeviceLoop ==
    /\ pc = "wait_device"
    /\ \E listed \in Enumerations :
          LET r == wait_device_loop(listed, polls)
          IN  /\ devices' = listed
              /\ handles' = handles + Len(listed)
              /\ CASE r.kind = "recurse" ->
                      /\ polls' = polls + 1
                      /\ UNCHANGED <<pc, device, options, ops, error>>
                [] r.kind = "raise" ->
                      /\ Raise(r.msg)
                      /\ UNCHANGED <<polls, device, options, ops>>
                [] r.kind = "return" ->
                      /\ device' = r.value
                      /\ options' \in PluggedOptions
                      /\ ops' = Append(ops, "wait_device")
                      /\ pc' = "get_serial_number"
                      /\ polls' = 0
                      /\ UNCHANGED error
    /\ UNCHANGED <<platform, configs, in_csv, access_token, line_count,
                   out_csv, user_name, serial, pin, pinOwner, response,
                   activated, auth_method, digits>>
    /\ UNCHANGED <<read_packet, apdu_exchange>>
    /\ UNCHANGED <<token_requests, headers>>
    /\ Persist

\* lines 134 and 439-488
GetSerialNumber ==
    /\ pc = "get_serial_number"
    /\ \E listing \in YubiKeyListings, recv \in RunHidResponses, x \in RunNfcAnswers :
          LET r == get_serial_number(device, listing, recv, x)
          IN  /\ ops' = Append(ops, "get_serial_number")
              /\ IF r.kind = "raise"
                 THEN Raise(r.msg) /\ UNCHANGED serial
                 ELSE /\ serial' = r.value
                      /\ pc' = "select_client"
                      /\ UNCHANGED error
    /\ UNCHANGED <<platform, configs, in_csv, access_token, line_count,
                   out_csv, user_name, polls, device, devices, options, pin, pinOwner, response,
                   activated, auth_method, digits>>
    /\ UNCHANGED <<read_packet, apdu_exchange>>
    /\ UNCHANGED <<handles, token_requests, headers>>
    /\ Persist

\* lines 136-145: the platform-delegated branch
SelectWindowsClient ==
    /\ pc = "select_client"
    /\ UseWindowsClient
    /\ pin' = NotApplicable
    /\ pinOwner' = line_count
    /\ pc' = "make_credential"
    /\ UNCHANGED <<platform, configs, in_csv, access_token, line_count,
                   out_csv, user_name, polls, device, devices, options, serial, response,
                   activated, auth_method, ops, error, digits>>
    /\ UNCHANGED <<read_packet, apdu_exchange>>
    /\ UNCHANGED <<handles, token_requests, headers>>
    /\ Persist

\* generate_and_set_pin without the test of line 386
PinProvisioningOverwrites(clientPin) == "generate"

\* lines 391-396: what generate_and_set_pin does when setRandomPIN is set, on
\* a key that reports (or not) that a PIN is already set
PinProvisioning(clientPin) == IF clientPin THEN "quit" ELSE "generate"

\* lines 146-147 and 380-398: generate_and_set_pin on the direct-device path.
\* applied tells whether client_pin.set_pin succeeds.  quit() is not an
\* Exception: it passes the except clause of main and ends the process.
GenerateAndSetPin ==
    /\ pc = "select_client"
    /\ ~UseWindowsClient
    /\ IF configs.setRandomPIN
       THEN IF PinProvisioning(options.clientPin) = "quit"
            THEN /\ pc' = "quit"
                 /\ UNCHANGED <<pin, pinOwner, ops, error>>
            ELSE LET results == GeneratePinResults(configs.randomPINLength, RunDigits)
                 IN  IF results = {}
                     THEN /\ pc' = "generate_pin"
                          /\ ops' = Append(ops, "generate_pin")
                          /\ UNCHANGED <<pin, pinOwner, error>>
                     ELSE \E p \in results, applied \in BOOLEAN :
                             /\ pin' = p
                             /\ pinOwner' = line_count
                             /\ ops' = ops \o <<"generate_pin", "set_pin">>
                             /\ IF applied
                                THEN pc' = "fido2_client" /\ UNCHANGED error
                                ELSE Raise("CTAP error: PIN_POLICY_VIOLATION")
       ELSE /\ pc' = "fido2_client"
            /\ UNCHANGED <<pin, pinOwner, ops, error>>
    /\ UNCHANGED <<platform, configs, in_csv, access_token, line_count,
                   out_csv, user_name, polls, devices, device, options, serial,
                   response, activated, auth_method, digits>>
    /\ UNCHANGED <<read_packet, apdu_exchange>>
    /\ UNCHANGED <<handles, token_requests, headers>>
    /\ Persist

\* lines 149-159: the Fido2Client is built and the rk option examined;
\* sys.exit(1) ends the process like quit()
CheckResidentKey ==
    /\ pc = "fido2_client"
    /\ pc' = IF options.rk THEN "make_credential" ELSE "sys_exit"
    /\ UNCHANGED <<platform, configs, in_csv, access_token, line_count,
                   out_csv, user_name, polls, devices, device, options, serial,
                   pin, pinOwner, response, activated, auth_method, ops, error,
                   digits>>
    /\ UNCHANGED <<read_packet, apdu_exchange>>
    /\ UNCHANGED <<handles, token_requests, headers>>
    /\ Persist

\* lines 192-198: create_credentials_on_security_key returns and its locals
\* go out of scope
ReturnToMain ==
    /\ pc' = "activate"
    /\ devices' = <<>>
    /\ device' = "none"
    /\ options' = NoOptions

\* lines 162-166 and 106-110: the credential is created.  On the direct
\* path the library asks CliInteraction.request_pin for the PIN, which
\* prompts the operator unless setRandomPIN is set; the typed value goes to
\* the library and is not stored.
MakeCredential ==
    /\ pc = "make_credential"
    /\ \E created \in BOOLEAN :
          LET prompt == IF ~UseWindowsClient /\ ~configs.setRandomPIN
                        THEN <<"getpass">> ELSE <<>>
          IN  /\ ops' = ops \o <<"make_credential">> \o prompt
              /\ IF created
                 THEN /\ IF FlagsConfigured
                         THEN pc' = "set_ctap21_flags" /\ UNCHANGED <<devices, device, options>>
                         ELSE ReturnToMain
                      /\ UNCHANGED error
                 ELSE Raise("make_credential failed") /\ UNCHANGED <<devices, device, options>>
    /\ UNCHANGED <<platform, configs, in_csv, access_token, line_count,
                   out_csv, user_name, polls, serial, pin, pinOwner,
                   response, activated, auth_method, digits>>
    /\ UNCHANGED <<read_packet, apdu_exchange>>
    /\ UNCHANGED <<handles, token_requests, headers>>
    /\ Persist

\* lines 188-190 and 401-436: set_ctap21_flags.  done is the number of
\* client-PIN and configuration calls that return before one raises.
SetCtap21Flags ==
    /\ pc = "set_ctap21_flags"
    /\ IF UseWindowsClient
       THEN /\ ReturnToMain
            /\ UNCHANGED <<pin, pinOwner, ops, error>>
       ELSE \E typed \in TypedPins :
               LET calls == Ctap21Calls(options.setMinPINLength)
                   prompt == IF ~configs.setRandomPIN THEN <<"getpass">> ELSE <<>>
               IN  /\ IF ~configs.setRandomPIN
                      THEN pin' = typed /\ pinOwner' = line_count
                      ELSE UNCHANGED <<pin, pinOwner>>
                   /\ \E done \in 0..Len(calls) :
                         IF done = Len(calls)
                         THEN /\ ops' = ops \o prompt \o calls
                              /\ ReturnToMain
                              /\ UNCHANGED error
                         ELSE /\ ops' = ops \o prompt \o SubSeq(calls, 1, done + 1)
                              /\ Raise("CTAP error")
                              /\ UNCHANGED <<devices, device, options>>
    /\ UNCHANGED <<platform, configs, in_csv, access_token, line_count,
                   out_csv, user_name, polls, serial, response,
                   activated, auth_method, digits>>
    /\ UNCHANGED <<read_packet, apdu_exchange>>
    /\ UNCHANGED <<handles, token_requests, headers>>
    /\ Persist

\* lines 578-586 and 299-348: the activation request and its answer
Activate ==
    /\ pc = "activate"
    /\ ops' = Append(ops, "activate")
    /\ headers' = set_http_headers(access_token)
    /\ \/ \E resp \in Responses :
             LET r == create_and_activate_fido_method(resp)
             IN  /\ response' = resp
                 /\ activated' = r[1]
                 /\ auth_method' = r[2]
                 /\ pc' = "write_row"
                 /\ UNCHANGED error
       \/ /\ Raise("connection error")
          /\ UNCHANGED <<response, activated, auth_method>>
    /\ UNCHANGED <<platform, configs, in_csv, access_token, line_count,
                   out_csv, user_name, polls, device, devices, options, serial, pin, pinOwner,
                   digits>>
    /\ UNCHANGED <<read_packet, apdu_exchange>>
    /\ UNCHANGED <<handles, token_requests>>
    /\ Persist

\* the row is written and the next row read without asking the operator
WriteRowNoPrompt ==
    /\ pc = "write_row"
    /\ out_csv' = Append(out_csv, OutcomeRow(user_name, auth_method, serial, pin))
    /\ line_count' = line_count + 1
    /\ pc' = "next_row"
    /\ UNCHANGED <<platform, configs, in_csv, access_token, user_name, polls,
                   device, devices, options, serial, pin, pinOwner, response,
                   activated, auth_method, ops, error, digits>>
    /\ UNCHANGED <<read_packet, apdu_exchange>>
    /\ UNCHANGED <<handles, token_requests, headers>>
    /\ Persist

\* the output file reopened for writing at each row
WriteRowTruncating ==
    /\ pc = "write_row"
    /\ out_csv' = <<Header, OutcomeRow(user_name, auth_method, serial, pin)>>
    /\ pc' = "continue_prompt"
    /\ UNCHANGED <<platform, configs, in_csv, access_token, line_count,
                   user_name, polls, devices, device, options, serial, pin,
                   pinOwner, response, activated, auth_method, ops, error,
                   digits>>
    /\ UNCHANGED <<read_packet, apdu_exchange>>
    /\ UNCHANGED <<handles, token_requests, headers>>
    /\ Persist

\* lines 592-600: the row is written and the operator asked to continue
WriteRow ==
    /\ pc = "write_row"
    /\ out_csv' = Append(out_csv, OutcomeRow(user_name, auth_method, serial, pin))
    /\ pc' = "continue_prompt"
    /\ UNCHANGED <<platform, configs, in_csv, access_token, line_count,
                   user_name, polls, device, devices, options, serial, pin, pinOwner, response,
                   activated, auth_method, ops, error, digits>>
    /\ UNCHANGED <<read_packet, apdu_exchange>>
    /\ UNCHANGED <<handles, token_requests, headers>>
    /\ Persist

\* lines 600-603: the operator presses Enter
Acknowledge ==
    /\ pc = "continue_prompt"
    /\ line_count' = line_count + 1
    /\ pc' = "next_row"
    /\ UNCHANGED <<platform, configs, in_csv, access_token, out_csv,
                   user_name, polls, device, devices, options, serial, pin, pinOwner, response,
                   activated, auth_method, ops, error, digits>>
    /\ UNCHANGED <<read_packet, apdu_exchange>>
    /\ UNCHANGED <<handles, token_requests, headers>>
    /\ Persist

\* the process is ended from outside (kill, power loss, closed terminal)
\* while it waits for the operator, at the device poll or at the prompt of
\* line 600: no with block is unwound and nothing buffered is written; what
\* remains is the stored file.  line_count and out_csv keep what the process
\* had done.
ProcessKilled ==
    /\ pc \in {"wait_device", "continue_prompt"}
    /\ pc' = "killed"
    /\ access_token' = ""
    /\ user_name' = ""
    /\ polls' = 0
    /\ devices' = <<>>
    /\ device' = "none"
    /\ options' = NoOptions
    /\ serial' = Unbound
    /\ pin' = NoPin
    /\ pinOwner' = 0
    /\ response' = NoResponse
    /\ activated' = FALSE
    /\ auth_method' = Unbound
    /\ ops' = <<>>
    /\ digits' = <<>>
    /\ handles' = 0
    /\ headers' = NoHeaders
    /\ UNCHANGED <<platform, configs, in_csv, line_count, out_csv, error,
                   read_packet, apdu_exchange, token_requests, disk>>

Next ==
    \/ GetAccessToken
    \/ OpenFiles
    \/ SkipHeaderRow
    \/ ReadEntry
    \/ EndOfInput
    \/ WaitDeviceLoop
    \/ GetSerialNumber
    \/ SelectWindowsClient
    \/ GenerateAndSetPin
    \/ CheckResidentKey
    \/ MakeCredential
    \/ SetCtap21Flags
    \/ Activate
    \/ WriteRow
    \/ Acknowledge
    \/ ProcessKilled

Spec == Init /\ [][Next]_vars

---------------------------------------------------------------------------
(* generate_pin on its own, one secrets.choice at a time *)

InitPin ==
    /\ platform = "other"
    /\ configs \in Configs(0..MaxLen)
    /\ configs.setRandomPIN
    /\ ~configs.setMinimumPINLength /\ ~configs.setForceChangePin
    /\ in_csv = <<>>
    /\ pc = "generate_pin"
    /\ Loaded
    /\ NotLookedUp

\* line 374: one more character of the candidate
SampleDigit ==
    /\ pc = "generate_pin"
    /\ Len(digits) < configs.randomPINLength
    /\ \E c \in string_digits :
          /\ ExploredPrefix(Append(digits, c), configs.randomPINLength)
          /\ digits' = Append(digits, c)
    /\ UNCHANGED <<platform, configs, in_csv, pc, access_token, line_count,
                   out_csv, user_name, polls, device, devices, options, serial, pin, pinOwner,
                   response, activated, auth_method, ops, error>>
    /\ UNCHANGED <<read_packet, apdu_exchange>>
    /\ UNCHANGED <<handles, token_requests, headers, disk>>

\* lines 376-377: the candidate passes the test and is returned
ReturnPin ==
    /\ pc = "generate_pin"
    /\ Len(digits) >= configs.randomPINLength
    /\ PinAccepted(digits)
    /\ pin' = digits
    /\ pc' = "generate_pin_returned"
    /\ UNCHANGED <<platform, configs, in_csv, access_token, line_count,
                   out_csv, user_name, polls, device, devices, options, serial, pinOwner,
                   response, activated, auth_method, ops, error, digits>>
    /\ UNCHANGED <<read_packet, apdu_exchange>>
    /\ UNCHANGED <<handles, token_requests, headers, disk>>

\* lines 373-376: the candidate fails the test; the loop samples again
RejectCandidate ==
    /\ pc = "generate_pin"
    /\ Len(digits) >= configs.randomPINLength
    /\ ~PinAccepted(digits)
    /\ digits' = <<>>
    /\ UNCHANGED <<platform, configs, in_csv, pc, access_token, line_count,
                   out_csv, user_name, polls, device, devices, options, serial, pin, pinOwner,
                   response, activated, auth_method, ops, error>>
    /\ UNCHANGED <<read_packet, apdu_exchange>>
    /\ UNCHANGED <<handles, token_requests, headers, disk>>

NextPin ==
    \/ SampleDigit
    \/ ReturnPin
    \/ RejectCandidate

SpecPin == InitPin /\ [][NextPin]_vars


---------------------------------------------------------------------------
(* generate_pin under a fair random source *)

InitPinFair ==
    /\ platform = "other"
    /\ configs \in Configs(0..MaxFairLen)
    /\ configs.setRandomPIN
    /\ ~configs.setMinimumPINLength /\ ~configs.setForceChangePin
    /\ in_csv = <<>>
    /\ pc = "generate_pin"
    /\ Loaded
    /\ NotLookedUp

\* line 374: secrets.choice hands out digit c
SamplesDigit(c) == SampleDigit /\ digits' = Append(digits, c)

\* lines 374-376: the digit sampled last completes a candidate that passes
\* the test
SamplesAccepted ==
    /\ SampleDigit
    /\ Len(digits') = configs.randomPINLength
    /\ PinAccepted(digits')

\* the interpreter keeps executing the loop, and the random source is fair:
\* each digit is handed out again and again, and so is a digit that
\* completes a candidate passing the test whenever there is one (a source
\* that hands out every digit string of the configured length again and
\* again does both)
SpecPinFair ==
    /\ InitPinFair
    /\ [][NextPin]_vars
    /\ WF_vars(SampleDigit)
    /\ WF_vars(ReturnPin)
    /\ WF_vars(RejectCandidate)
    /\ \A c \in SampleDigits : SF_vars(SamplesDigit(c))
    /\ SF_vars(SamplesAccepted)

---------------------------------------------------------------------------
(* get_thales_serial_number on its own, on crafted answers of the device *)

InitSerial ==
    /\ platform = "other"
    /\ configs \in Configs({2})
    /\ ~configs.setRandomPIN
    /\ ~configs.setMinimumPINLength /\ ~configs.setForceChangePin
    /\ in_csv = <<>>
    /\ pc = "get_thales_serial_number"
    /\ device \in HidDevices \cup PcscDevices
    /\ devices = <<device>>
    /\ read_packet \in IF device \in HidDevices THEN CraftedPackets ELSE {<<>>}
    /\ apdu_exchange \in IF device \in HidDevices THEN {NoExchange} ELSE CraftedExchanges
    /\ access_token = ""
    /\ line_count = 0
    /\ out_csv = <<>>
    /\ user_name = ""
    /\ polls = 0
    /\ options = NoOptions
    /\ serial = Unbound
    /\ pin = NoPin
    /\ pinOwner = 0
    /\ response = NoResponse
    /\ activated = FALSE
    /\ auth_method = Unbound
    /\ ops = <<>>
    /\ error = ""
    /\ digits = <<>>
    /\ handles = 1
    /\ token_requests = 0
    /\ headers = NoHeaders
    /\ disk = <<>>

\* the function returns r.value or raises r.msg to its caller
EndLookup(r) ==
    IF r.kind = "raise"
    THEN error' = r.msg /\ pc' = "raised" /\ UNCHANGED serial
    ELSE serial' = r.value /\ pc' = "returned" /\ UNCHANGED error

\* lines 450-466 and 487-488: the lookup over USB HID
ThalesSerialHid ==
    /\ pc = "get_thales_serial_number"
    /\ device \in HidDevices
    /\ ops' = <<"write_packet", "read_packet">>
    /\ EndLookup(get_thales_serial_number_hid(read_packet))
    /\ UNCHANGED <<platform, configs, in_csv, access_token, line_count,
                   out_csv, user_name, polls, devices, device, options, pin,
                   pinOwner, response, activated, auth_method, digits,
                   read_packet, apdu_exchange, handles, token_requests,
                   headers, disk>>

\* lines 468-488: the lookup over NFC
ThalesSerialNfc ==
    /\ pc = "get_thales_serial_number"
    /\ device \in PcscDevices
    /\ ops' = NfcCalls(apdu_exchange)
    /\ EndLookup(get_thales_serial_number_nfc(apdu_exchange))
    /\ UNCHANGED <<platform, configs, in_csv, access_token, line_count,
                   out_csv, user_name, polls, devices, device, options, pin,
                   pinOwner, response, activated, auth_method, digits,
                   read_packet, apdu_exchange, handles, token_requests,
                   headers, disk>>

NextSerial ==
    \/ ThalesSerialHid
    \/ ThalesSerialNfc

SpecSerial == InitSerial /\ [][NextSerial]_vars

---------------------------------------------------------------------------
(* Properties *)

Count(log, op) == Cardinality({i \in DOMAIN log : log[i] = op})

\* C1: once the ceremony or the activation call of entry k has raised, main
\* has stopped; there is no row for entry k, the output holds the header and
\* the rows of entries 1..k-1, and nothing more is done: no operation, no
\* row, no further entry.
C1_BatchAbort ==
    /\ [](error # "" =>
            /\ pc = "aborted"
            /\ line_count >= 1
            /\ Len(out_csv) = line_count
            /\ \A i \in 1..(line_count - 1) : out_csv[i + 1][1] = in_csv[i + 1])
    /\ [][error # "" => UNCHANGED <<pc, line_count, out_csv, ops, user_name>>]_vars

\* entry 2 of three raised: exactly one row, entry 3 not attempted
C1_Witness ==
    /\ error # ""
    /\ Len(in_csv) = 4
    /\ line_count = 2
    /\ Len(out_csv) = 2

\* C2 (as claimed): an entry whose activation request is answered with a
\* status other than 201 yields no method id and gets no row in the output.
C2_NoRowOnActivationFailure ==
    (pc \in {"write_row", "continue_prompt"} /\ response.status # 201) =>
        /\ auth_method = PyEmptyList
        /\ Len(out_csv) = line_count

\* C3: an entry whose credential was created and whose activation returned
\* 201 with id X gets exactly one row, (its username, X, the serial the
\* lookup returned, the PIN in the global pin); that PIN was assigned while
\* this entry was processed, or never assigned at all (and then empty).
C3_RowContent ==
    /\ pc = "write_row" => Len(out_csv) = line_count
    /\ (pc = "continue_prompt" /\ response.status = 201) =>
          /\ Len(out_csv) = line_count + 1
          /\ out_csv[line_count + 1]
                = <<in_csv[line_count + 1], response.id, CsvField(serial), pin>>
          /\ pinOwner \in {0, line_count}
          /\ pinOwner = 0 => pin = NoPin

\* the second entry's row holds a generated PIN that differs from the first's
C3_Witness ==
    /\ pc = "continue_prompt"
    /\ response.status = 201
    /\ line_count = 2
    /\ pin \in GeneratePinResults(2, RunDigits)
    /\ out_csv[2][4] # pin
    /\ out_csv[3][4] = pin

\* C4: once the output file is open it is the header row followed by rows
\* of worklist entries in worklist order, one per entry at most (row i + 1
\* is the row of entry i), and a step only ever appends to it.
C4_OutputStructure ==
    /\ [](pc \notin {"main", "open", "crashed"} =>
            /\ Len(out_csv) >= 1
            /\ out_csv[1] = Header
            /\ \A i \in 2..Len(out_csv) :
                  i <= Len(in_csv) /\ out_csv[i][1] = in_csv[i])
    /\ [][pc \notin {"main", "open", "crashed"} =>
            /\ Len(out_csv') >= Len(out_csv)
            /\ SubSeq(out_csv', 1, Len(out_csv)) = out_csv]_vars

C4_Witness ==
    /\ pc = "continue_prompt"
    /\ Len(out_csv) = 3
    /\ Len(in_csv) = 4

\* C5: a value returned by generate_pin has the configured length, is made
\* of digits, is not one digit repeated and is not on the denylist; it is
\* the candidate as it was sampled, and a candidate only ever grows by one
\* sampled digit or is dropped whole.
C5_GeneratedPinPolicy ==
    /\ [](pc = "generate_pin_returned" =>
            /\ Len(pin) = configs.randomPINLength
            /\ \A i \in DOMAIN pin : pin[i] \in string_digits
            /\ ~(Len(pin) >= 1 /\ \A i, j \in DOMAIN pin : pin[i] = pin[j])
            /\ pin \notin disallowed_pins)
    /\ [][pc' = "generate_pin_returned" =>
            pin' = digits /\ Len(digits) = configs.randomPINLength]_vars
    /\ [][digits' # digits =>
            \/ digits' = <<>>
            \/ /\ Len(digits) < configs.randomPINLength
               /\ \E c \in string_digits : digits' = Append(digits, c)]_vars

\* a six-digit PIN that starts like a denylist entry has been returned
C5_Witness ==
    /\ pc = "generate_pin_returned"
    /\ Len(pin) = 6
    /\ SubSeq(pin, 1, 5) = <<"1", "2", "3", "1", "2">>

\* C6 (as claimed): when the PIN is user-supplied (setRandomPIN false) no row
\* of the output holds a PIN the operator typed.
C6_TypedPinNeverWritten ==
    ~configs.setRandomPIN =>
        \A i \in 2..Len(out_csv) : out_csv[i][4] \notin TypedPins

C8_PlatformDelegated ==
    /\ [](platform = "windows_user" =>
            /\ \A i \in DOMAIN ops :
                  ops[i] \notin {"generate_pin", "set_pin", "getpass", "get_pin_token",
                                 "set_min_pin_length", "force_change_pin"}
            /\ pc \in {"make_credential", "set_ctap21_flags", "activate",
                       "write_row", "continue_prompt"} => pin = NotApplicable
            /\ \A i \in 2..Len(out_csv) : out_csv[i][4] = NotApplicable)
    /\ [][(platform = "windows_user" /\ pc = "set_ctap21_flags") =>
            (pc' = "activate" /\ UNCHANGED <<ops, pin, error>>)]_vars

C8_Witness ==
    /\ platform = "windows_user"
    /\ configs.setRandomPIN
    /\ configs.setMinimumPINLength /\ configs.setForceChangePin
    /\ pc = "activate"
    /\ line_count = 2
    /\ out_csv[2][4] = NotApplicable

\* what the operations of an entry look like when create_credentials_on_
\* security_key returns: the token request and the configuration calls are
\* there (apply) or not, each once, after make_credential, the token first,
\* and no activation request has been made yet
FlagsStep(log, apply) ==
    /\ Count(log, "make_credential") = 1
    /\ Count(log, "activate") = 0
    /\ Count(log, "get_pin_token") = IF apply THEN 1 ELSE 0
    /\ Count(log, "set_min_pin_length")
          = IF apply /\ configs.setMinimumPINLength THEN 1 ELSE 0
    /\ Count(log, "force_change_pin")
          = IF apply /\ configs.setForceChangePin THEN 1 ELSE 0
    /\ \A i, j \in DOMAIN log :
          /\ (/\ log[i] = "make_credential"
              /\ log[j] \in {"get_pin_token", "set_min_pin_length", "force_change_pin"})
                => i < j
          /\ (/\ log[i] = "get_pin_token"
              /\ log[j] \in {"set_min_pin_length", "force_change_pin"})
                => i < j

\* C9 (as claimed): on the direct-device path, an entry goes on to the
\* activation request with the token obtained and one configuration call per
\* configured flag when a flag is configured, and with none of them otherwise.
C9_FlagsWheneverConfigured ==
    [][(/\ pc \in {"make_credential", "set_ctap21_flags"}
        /\ pc' = "activate"
        /\ platform # "windows_user") =>
          FlagsStep(ops', FlagsConfigured)]_vars

\* C9 (amended): the same, when a flag is configured and the key reports the
\* setMinPINLength option; with no flag configured, or on a key that does not
\* report the option, there is no token request and no configuration call.
C9_FlagsWhenSupported ==
    [][(/\ pc \in {"make_credential", "set_ctap21_flags"}
        /\ pc' = "activate"
        /\ platform # "windows_user") =>
          FlagsStep(ops', FlagsConfigured /\ options.setMinPINLength)]_vars

C9_Witness ==
    /\ pc = "activate"
    /\ platform = "other"
    /\ Count(ops, "get_pin_token") = 1
    /\ Count(ops, "set_min_pin_length") = 1
    /\ Count(ops, "force_change_pin") = 1

\* C10: wait_device hands over a device only at a poll that lists exactly
\* one, and it is that one; a poll that lists more than one raises, whatever
\* the earlier polls listed; a poll that lists none hands over nothing.
C10_DeviceSelection ==
    /\ [][(pc = "wait_device" /\ pc' = "get_serial_number") =>
            (Len(devices') = 1 /\ device' = devices'[1])]_vars
    /\ [][(pc = "wait_device" /\ Len(devices') > 1) =>
            /\ pc' = "aborted"
            /\ error' = "More than one device found."
            /\ device' = device]_vars
    /\ [][(pc = "wait_device" /\ Len(devices') # 1) =>
            (pc' # "get_serial_number" /\ device' = device)]_vars

\* two devices listed after a poll that listed none
C10_Witness ==
    /\ error = "More than one device found."
    /\ Len(devices) = 2
    /\ polls >= 1

\* C11 (as claimed): a poll that lists no device neither hands over a device
\* nor fails, however many empty polls came before it, and a poll that
\* lists exactly one device hands over that device.
C11_PollingNoTimeout ==
    /\ [][(pc = "wait_device" /\ Len(devices') = 0 /\ pc' # "killed") =>
            (pc' = "wait_device" /\ error' = "")]_vars
    /\ [][(pc = "wait_device" /\ Len(devices') = 1) =>
            (pc' = "get_serial_number" /\ device' = devices'[1])]_vars

\* C12 (as claimed): at most one transport connection is open at any time,
\* and the connection of an entry is closed before the row of the next entry
\* is read.
C12_HandleDiscipline ==
    /\ handles <= 1
    /\ pc = "next_row" => handles = 0

\* C13: over USB HID, a response whose first four bytes are not the channel
\* of the device fails with "Wrong channel"; a response whose bytes 7 and 8
\* are not 0x00 and 0x02 fails; a response of at least 17 bytes with the
\* right channel and status bytes and an ASCII serial returns the eight
\* bytes at offsets 9..16 as the serial, and no other value is ever returned
\* for such a response.
C13_HidFraming ==
    (pc \in {"returned", "raised"} /\ device \in HidDevices) =>
        LET p == read_packet
            channel == p[1] * 16777216 + p[2] * 65536 + p[3] * 256 + p[4]
        IN  /\ (Len(p) >= 4 /\ channel # ChannelId) =>
                  (pc = "raised" /\ error = "Wrong channel")
            /\ (Len(p) >= 9 /\ (p[8] # 0 \/ p[9] # 2)) => pc = "raised"
            /\ (Len(p) >= 17 /\ channel = ChannelId /\ p[8] = 0 /\ p[9] = 2) =>
                  /\ pc = "returned" => serial = PyStr(SubSeq(p, 10, 17))
                  /\ (\A i \in 10..17 : p[i] < 128) => pc = "returned"

\* a full packet was decoded to the serial it carries
C13_Witness ==
    /\ pc = "returned"
    /\ device \in HidDevices
    /\ Len(read_packet) = MaxPacket
    /\ serial = PyStr(SerialBytes)

\* C14 (as claimed): over USB HID, a response shorter than 17 bytes makes the
\* lookup fail; no serial decoded from fewer than 8 bytes is returned.
C14_ShortResponse ==
    (pc \in {"returned", "raised"} /\ device \in HidDevices) =>
        /\ Len(read_packet) < 17 => pc = "raised"
        /\ pc = "returned" => Len(serial[2]) = 8

\* C15 (as claimed): over NFC, when the applet selection or the data
\* request raises or answers with a status word other than success, the
\* lookup returns the empty serial and raises nothing; on every path
\* device._select() is called once, after the exchanges.
C15_ContactlessLeniency ==
    (pc \in {"returned", "raised"} /\ device \in PcscDevices) =>
        LET x == apdu_exchange
            selected == ~x.select.exc /\ x.select.sw = SW_SUCCESS
            failed == ~selected \/ x.getdata.exc \/ x.getdata.sw # SW_SUCCESS
        IN  /\ failed => (pc = "returned" /\ serial = PyStr(<<>>))
            /\ Count(ops, "_select") = 1
            /\ ops[Len(ops)] = "_select"

\* C16: the token is requested exactly once in a run, before the output
\* file is opened, before any row of the worklist is read and before any
\* device operation; it never changes afterwards, and every activation
\* request carries it.
C16_TokenLifecycle ==
    /\ [](token_requests = IF pc = "main" THEN 0 ELSE 1)
    /\ [](pc = "main" =>
            /\ line_count = 0 /\ out_csv = <<>>
            /\ ops = <<>> /\ handles = 0
            /\ headers = NoHeaders)
    /\ [][(pc # "main" /\ pc' # "killed") => access_token' = access_token]_vars
    /\ [][headers' # headers =>
            \/ pc' = "killed"
            \/ /\ pc = "activate"
               /\ access_token # ""
               /\ headers'.Authorization = access_token]_vars
    /\ [][(pc = "activate" /\ pc' # pc) =>
            (access_token # "" /\ headers'.Authorization = access_token)]_vars

\* the activation request of the second entry carried the token
C16_Witness ==
    /\ pc = "write_row"
    /\ line_count = 2
    /\ token_requests = 1
    /\ headers.Authorization = "token"
    /\ access_token = "token"

\* positions of the thread of control inside create_credentials_on_security_key
InCeremony ==
    pc \in {"wait_device", "get_serial_number", "select_client", "fido2_client",
            "make_credential", "set_ctap21_flags"}

\* C17: the step that writes a row leads to the prompt; from the prompt the
\* only step of the script is the operator's acknowledgment, which issues
\* no operation; whenever a ceremony is in progress every row written so far
\* has been acknowledged (rows written = Len(out_csv) - 1, acknowledgments
\* = line_count - 1).
C17_OperatorAcknowledgment ==
    /\ [][Len(out_csv') > Len(out_csv) /\ pc = "write_row" =>
            (pc' = "continue_prompt" /\ line_count' = line_count)]_vars
    /\ [][pc = "continue_prompt" =>
            \/ pc' = "killed"
            \/ /\ pc' = "next_row"
               /\ line_count' = line_count + 1
               /\ UNCHANGED <<ops, handles, out_csv>>]_vars
    /\ [](InCeremony => Len(out_csv) = line_count)
    /\ [](pc = "continue_prompt" => Len(out_csv) = line_count + 1)

\* the second entry's key is in hand after the first row was acknowledged
C17_Witness ==
    /\ pc = "get_serial_number"
    /\ line_count = 2
    /\ Len(out_csv) = 2

\* C18 (as claimed): when the processing of an entry begins the rows of the
\* entries before it are in the stored file, and whenever the run has
\* stopped, by an abort, an exit or an interruption, the stored file holds
\* the header and the row of every completed entry.
C18_IncrementalDurability ==
    /\ (pc = "wait_device" /\ line_count >= 2) => disk = out_csv
    /\ pc \in Closed \cup {"killed"} => disk = out_csv

\* the place of each operation in the order of the steps of an entry
StepRank(op) ==
    CASE op = "wait_device" -> 1
      [] op = "get_serial_number" -> 2
      [] op = "generate_pin" -> 3
      [] op = "set_pin" -> 4
      [] op = "make_credential" -> 5
      [] op = "getpass" -> 6
      [] op = "get_pin_token" -> 7
      [] op = "set_min_pin_length" -> 8
      [] op = "force_change_pin" -> 9
      [] op = "activate" -> 10

\* C19: the operations of an entry are issued in the order device wait,
\* serial lookup, PIN generation and setting, credential creation, device
\* configuration, activation request, and the row is appended after the
\* activation request; each of device wait, serial lookup, credential
\* creation and activation request happens at most once per entry; the
\* activation request is made only after a ceremony that returned without an
\* error, with its credential created.
C19_PerEntryOrdering ==
    /\ [](\A i, j \in DOMAIN ops : i < j => StepRank(ops[i]) <= StepRank(ops[j]))
    /\ [](\A op \in {"wait_device", "get_serial_number", "make_credential", "activate"} :
            Count(ops, op) <= 1)
    /\ [][(pc' = "activate" /\ pc # "activate") =>
            /\ pc \in {"make_credential", "set_ctap21_flags"}
            /\ error' = ""
            /\ Count(ops', "make_credential") = 1]_vars
    /\ [][Count(ops', "activate") > Count(ops, "activate") =>
            /\ pc = "activate"
            /\ error = ""
            /\ ops' = Append(ops, "activate")
            /\ ops[1] = "wait_device" /\ ops[2] = "get_serial_number"
            /\ Count(ops, "make_credential") = 1]_vars
    /\ [][Len(out_csv') > Len(out_csv) /\ Len(out_csv) >= 1 =>
            (ops[Len(ops)] = "activate" /\ ops' = ops)]_vars

\* an entry went through every step, the optional ones included
C19_Witness ==
    /\ pc = "continue_prompt"
    /\ ops = <<"wait_device", "get_serial_number", "generate_pin", "set_pin",
               "make_credential", "get_pin_token", "set_min_pin_length",
               "force_change_pin", "activate">>

\* C20 (as claimed): under a fair random source generate_pin returns for
\* every randomPINLength of at least 1.
C20_TerminatesFromOne ==
    configs.randomPINLength >= 1 => <>(pc = "generate_pin_returned")

\* C20 (amended): under a fair random source generate_pin returns for every
\* randomPINLength of at least 2; with a randomPINLength of 1 it never
\* returns.
C20_TerminatesFromTwo ==
    /\ configs.randomPINLength >= 2 => <>(pc = "generate_pin_returned")
    /\ configs.randomPINLength = 1 => [](pc # "generate_pin_returned")

\* a PIN of the longest length explored has been returned
C20_Witness ==
    /\ pc = "generate_pin_returned"
    /\ configs.randomPINLength = MaxFairLen
    /\ Len(pin) = MaxFairLen

\* C21 (as claimed): when the run has ended and the PIN generated for the
\* last entry processed was set on its key by set_pin, the output holds the
\* row of that entry with that PIN.
C21_GeneratedPinNeverLost ==
    (/\ pc \in Closed
     /\ pinOwner >= 1
     /\ Count(ops, "set_pin") = 1
     /\ error # "CTAP error: PIN_POLICY_VIOLATION") =>
        /\ Len(out_csv) >= pinOwner + 1
        /\ out_csv[pinOwner + 1][1] = in_csv[pinOwner + 1]
        /\ out_csv[pinOwner + 1][4] = pin

====
